---- MODULE Spec2Model ----
(***************************************************************************)
(* AnimeAutoCut: the time-code utilities, the table parser and the batch   *)
(* script generator.                                                       *)
(*                                                                         *)
(* Representation.  A JavaScript string is a sequence of characters, each  *)
(* character a one-character TLA+ string; a non-ASCII character is written *)
(* as its code point ("U+FF1A" is the full-width colon).  A JavaScript     *)
(* number is an integer count of thousandths (Unit = one second), which    *)
(* represents every value the program computes from inputs with at most    *)
(* three fractional digits, and makes toFixed(3) exact.  null / undefined  *)
(* / NaN are the empty tuple, a present value v is <<v>>.                  *)
(***************************************************************************)
EXTENDS Integers, Sequences, FiniteSets, TLC

VARIABLES
    pc,            \* which function of the pipeline has returned
    timeStr,       \* argument of parseTimeToSeconds
    timeResult,    \* its return value, <<>> before the call
    markdownInput, \* App state: the text handed to parseMarkdownTable
    parsedResult,  \* App state: { clips, errors }
    locals,        \* parseMarkdownTable's strategy, headerIdx, colIndices
    padding,       \* App state: padding
    script,        \* generateBatchScript's commands, <<>> before the call
    seconds,       \* argument of formatSeconds
    calls,         \* the parser and generator calls made so far, in order
    files,         \* App state: the file map, name -> duration
    uploads        \* per handleFileUpload call: its newFiles map and the
                   \* files whose onloadedmetadata has not fired yet

vars == <<pc, timeStr, timeResult, markdownInput, parsedResult, locals,
          padding, script, seconds, calls, files, uploads>>

\* The state of the file list.
fileVars == <<files, uploads>>

\* ------------------------------------------------------------------------
\* Numbers and characters
\* ------------------------------------------------------------------------

\* One second, in the model's thousandths (toFixed(3) keeps 3 decimals).
Unit == 1000

Num(n) == n * Unit

NaN == <<>>
Null == <<>>
Undefined == <<>>
Some(v) == <<v>>

Digits == {"0", "1", "2", "3", "4", "5", "6", "7", "8", "9"}

DigitVal(c) ==
    CASE c = "0" -> 0 [] c = "1" -> 1 [] c = "2" -> 2 [] c = "3" -> 3
      [] c = "4" -> 4 [] c = "5" -> 5 [] c = "6" -> 6 [] c = "7" -> 7
      [] c = "8" -> 8 [] c = "9" -> 9

DigitChar(d) ==
    CASE d = 0 -> "0" [] d = 1 -> "1" [] d = 2 -> "2" [] d = 3 -> "3"
      [] d = 4 -> "4" [] d = 5 -> "5" [] d = 6 -> "6" [] d = 7 -> "7"
      [] d = 8 -> "8" [] d = 9 -> "9"

\* The characters JavaScript's \s and String.prototype.trim treat as blank.
WhiteSpace == {" ", "\t", "\n", "\r"}

FullWidthColon == "U+FF1A"

\* String.prototype.toLowerCase, one character.
LowerChar(c) ==
    CASE c = "A" -> "a" [] c = "B" -> "b" [] c = "C" -> "c" [] c = "D" -> "d"
      [] c = "E" -> "e" [] c = "F" -> "f" [] c = "G" -> "g" [] c = "H" -> "h"
      [] c = "I" -> "i" [] c = "J" -> "j" [] c = "K" -> "k" [] c = "L" -> "l"
      [] c = "M" -> "m" [] c = "N" -> "n" [] c = "O" -> "o" [] c = "P" -> "p"
      [] c = "Q" -> "q" [] c = "R" -> "r" [] c = "S" -> "s" [] c = "T" -> "t"
      [] c = "U" -> "u" [] c = "V" -> "v" [] c = "W" -> "w" [] c = "X" -> "x"
      [] c = "Y" -> "y" [] c = "Z" -> "z" [] OTHER -> c

toLowerCase(s) == [i \in 1..Len(s) |-> LowerChar(s[i])]

\* ------------------------------------------------------------------------
\* String primitives
\* ------------------------------------------------------------------------

RECURSIVE trimStart(_)
trimStart(s) ==
    IF s # <<>> /\ Head(s) \in WhiteSpace THEN trimStart(Tail(s)) ELSE s

RECURSIVE trimEnd(_)
trimEnd(s) ==
    IF s # <<>> /\ s[Len(s)] \in WhiteSpace
    THEN trimEnd(SubSeq(s, 1, Len(s) - 1))
    ELSE s

\* String.prototype.trim
trim(s) == trimEnd(trimStart(s))

\* s.startsWith(k) at position i (1-based)
MatchAt(s, k, i) ==
    /\ i + Len(k) - 1 <= Len(s)
    /\ \A j \in 1..Len(k) : s[i + j - 1] = k[j]

\* String.prototype.includes
includes(s, k) == \E i \in 1..(Len(s) + 1) : MatchAt(s, k, i)

\* (s.match(/c/g) || []).length for a one-character pattern c
CountChar(s, c) == Cardinality({i \in 1..Len(s) : s[i] = c})

\* s.replace(/[set]/g, by): by is a string (possibly empty)
RECURSIVE ReplaceChars(_, _, _)
ReplaceChars(s, set, by) ==
    IF s = <<>> THEN <<>>
    ELSE (IF Head(s) \in set THEN by ELSE <<Head(s)>>)
         \o ReplaceChars(Tail(s), set, by)

\* String.prototype.split with a pattern that is a set of literal
\* alternatives (strings): at each position the first alternative that
\* matches is the delimiter; empty pieces are kept.
RECURSIVE SplitFrom(_, _, _, _)
SplitFrom(s, seps, i, cur) ==
    IF i > Len(s) THEN <<cur>>
    ELSE LET hit == {k \in 1..Len(seps) : MatchAt(s, seps[k], i)}
         IN IF hit = {}
            THEN SplitFrom(s, seps, i + 1, Append(cur, s[i]))
            ELSE LET k == CHOOSE m \in hit : \A n \in hit : m <= n
                 IN <<cur>> \o SplitFrom(s, seps, i + Len(seps[k]), <<>>)

split(s, seps) == SplitFrom(s, seps, 1, <<>>)

\* Array.prototype.map
Map(f(_), a) == [i \in 1..Len(a) |-> f(a[i])]

\* Array.prototype.join for strings
RECURSIVE join(_, _)
join(a, sep) ==
    IF a = <<>> THEN <<>>
    ELSE IF Len(a) = 1 THEN a[1]
    ELSE a[1] \o sep \o join(Tail(a), sep)

\* ------------------------------------------------------------------------
\* parseFloat, restricted to decimal literals without exponent
\* ------------------------------------------------------------------------

RECURSIVE DigitPrefix(_)
DigitPrefix(s) ==
    IF s # <<>> /\ Head(s) \in Digits
    THEN <<Head(s)>> \o DigitPrefix(Tail(s))
    ELSE <<>>

RECURSIVE DigitsValue(_)
DigitsValue(ds) ==
    IF ds = <<>> THEN 0
    ELSE 10 * DigitsValue(SubSeq(ds, 1, Len(ds) - 1)) + DigitVal(ds[Len(ds)])

\* The first three fractional digits, as thousandths.
FractionValue(ds) ==
    LET d(i) == IF i <= Len(ds) THEN DigitVal(ds[i]) ELSE 0
    IN 100 * d(1) + 10 * d(2) + d(3)

\* parseFloat(s): leading blanks skipped, optional sign, the longest decimal
\* prefix; NaN when there is none. Trailing text is ignored, as in JavaScript.
parseFloat(s) ==
    LET t == trimStart(s)
        signed == t # <<>> /\ Head(t) \in {"-", "+"}
        sign == IF t # <<>> /\ Head(t) = "-" THEN -1 ELSE 1
        u == IF signed THEN Tail(t) ELSE t
        ip == DigitPrefix(u)
        rest == SubSeq(u, Len(ip) + 1, Len(u))
        fp == IF rest # <<>> /\ Head(rest) = "."
              THEN DigitPrefix(Tail(rest))
              ELSE <<>>
    IN IF ip = <<>> /\ fp = <<>>
       THEN NaN
       ELSE Some(sign * (Num(DigitsValue(ip)) + FractionValue(fp)))

\* ------------------------------------------------------------------------
\* timeUtils: parseTimeToSeconds
\* ------------------------------------------------------------------------

parseTimeToSeconds(str) ==
    IF str = <<>> THEN Num(-1)
    ELSE LET parts == Map(parseFloat, split(trim(str), << <<":">> >>))
         IN IF \E i \in 1..Len(parts) : parts[i] = NaN THEN Num(-1)
            ELSE IF Len(parts) = 3
                 THEN parts[1][1] * 3600 + parts[2][1] * 60 + parts[3][1]
            ELSE IF Len(parts) = 2 THEN parts[1][1] * 60 + parts[2][1]
            ELSE IF Len(parts) = 1 THEN parts[1][1]
            ELSE Num(-1)

\* Number.prototype.toString / template interpolation of an integer >= 0
RECURSIVE NatToString(_)
NatToString(n) ==
    IF n < 10 THEN <<DigitChar(n)>>
    ELSE NatToString(n \div 10) \o <<DigitChar(n % 10)>>

\* num.toString().padStart(2, '0')
pad2(num) ==
    IF num < 10 THEN <<"0">> \o NatToString(num) ELSE NatToString(num)

formatSeconds_NoHours(secs) ==
    LET m == (secs % (3600 * Unit)) \div (60 * Unit)
        s == (secs % (60 * Unit)) \div Unit
    IN pad2(m) \o <<":">> \o pad2(s)

\* formatSeconds, for seconds >= 0 (Math.floor is \div there)
formatSeconds(secs) ==
    LET h == secs \div (3600 * Unit)
        m == (secs % (3600 * Unit)) \div (60 * Unit)
        s == (secs % (60 * Unit)) \div Unit
    IN IF h > 0
       THEN pad2(h) \o <<":">> \o pad2(m) \o <<":">> \o pad2(s)
       ELSE pad2(m) \o <<":">> \o pad2(s)

\* ------------------------------------------------------------------------
\* parser: parseMarkdownTable
\* ------------------------------------------------------------------------

StrPipe == <<"p", "i", "p", "e">>
StrTab == <<"t", "a", "b">>
StrRegex == <<"r", "e", "g", "e", "x">>

\* input.split('\n').filter(line => line.trim() !== '')
NonEmptyLines(input) ==
    SelectSeq(split(input, << <<"\n">> >>), LAMBDA line : trim(line) # <<>>)

\* lines.slice(0, 5): the sample size of the strategy heuristic
SampleSize == 5

sampleLines(lines) ==
    SubSeq(lines, 1, IF Len(lines) < SampleSize THEN Len(lines) ELSE SampleSize)

RECURSIVE SumCount(_, _)
SumCount(ls, c) ==
    IF ls = <<>> THEN 0 ELSE CountChar(Head(ls), c) + SumCount(Tail(ls), c)

DetectStrategy_TabFirst(lines) ==
    LET sample == sampleLines(lines)
        pipeCount == SumCount(sample, "|")
        tabCount == SumCount(sample, "\t")
    IN IF tabCount > 0 THEN StrTab
       ELSE IF pipeCount >= Len(sample) THEN StrPipe
       ELSE StrRegex

\* 1. Detect Separator Strategy
DetectStrategy(lines) ==
    LET sample == sampleLines(lines)
        pipeCount == SumCount(sample, "|")
        tabCount == SumCount(sample, "\t")
    IN IF pipeCount >= Len(sample) THEN StrPipe
       ELSE IF tabCount > 0 THEN StrTab
       ELSE StrRegex

\* line.trim().split(/\s{2,}|\t/): a run of two or more blanks (greedy) or
\* a single tab is a delimiter.
RECURSIVE BlankRun(_, _)
BlankRun(s, i) ==
    IF i <= Len(s) /\ s[i] \in WhiteSpace THEN 1 + BlankRun(s, i + 1) ELSE 0

RECURSIVE SplitBlanksFrom(_, _, _)
SplitBlanksFrom(s, i, cur) ==
    IF i > Len(s) THEN <<cur>>
    ELSE LET run == BlankRun(s, i)
         IN IF run >= 2 THEN <<cur>> \o SplitBlanksFrom(s, i + run, <<>>)
            ELSE IF s[i] = "\t" THEN <<cur>> \o SplitBlanksFrom(s, i + 1, <<>>)
            ELSE SplitBlanksFrom(s, i + 1, Append(cur, s[i]))

splitLine(strategy, line) ==
    IF strategy = StrPipe
    THEN LET parts == split(line, << <<"|">> >>)
             shifted == IF Len(parts) > 0 /\ trim(parts[1]) = <<>>
                        THEN Tail(parts) ELSE parts
             popped == IF Len(shifted) > 0 /\ trim(shifted[Len(shifted)]) = <<>>
                       THEN SubSeq(shifted, 1, Len(shifted) - 1) ELSE shifted
         IN Map(trim, popped)
    ELSE IF strategy = StrTab
    THEN Map(trim, split(line, << <<"\t">> >>))
    ELSE Map(trim, SplitBlanksFrom(trim(line), 1, <<>>))

keywords ==
    [file |-> { <<"f", "i", "l", "e", "n", "a", "m", "e">>, <<"f", "i", "l", "e">>,
                <<"n", "a", "m", "e">>, <<"s", "o", "u", "r", "c", "e">>,
                <<"U+89C6", "U+9891">>, <<"U+6587", "U+4EF6">> },
     time |-> { <<"t", "i", "m", "e">>, <<"d", "u", "r", "a", "t", "i", "o", "n">>,
                <<"r", "a", "n", "g", "e">>, <<"s", "t", "a", "r", "t">>,
                <<"e", "n", "d">>, <<"U+65F6", "U+95F4">>, <<"U+622A", "U+53D6">>,
                <<"U+8F74">> },
     desc |-> { <<"d", "e", "s", "c", "r", "i", "p", "t", "i", "o", "n">>,
                <<"d", "e", "s", "c">>, <<"c", "o", "n", "t", "e", "n", "t">>,
                <<"n", "o", "t", "e">>, <<"U+63CF", "U+8FF0">>,
                <<"U+5185", "U+5BB9">> }]

\* keywords.<cat>.some(k => lower.includes(k))
CellMatches(col, kws) == \E k \in kws : includes(toLowerCase(col), k)

ColumnIndex_First(cols, kws) ==
    LET hits == {idx \in 0..(Len(cols) - 1) : CellMatches(cols[idx + 1], kws)}
    IN IF hits = {} THEN -1 ELSE CHOOSE m \in hits : \A n \in hits : m <= n

\* cols.forEach((col, idx) => { if (...) xIdx = idx; }): every matching cell
\* overwrites the index, left to right.
RECURSIVE ForEachIndex(_, _, _, _)
ForEachIndex(cols, kws, idx, acc) ==
    IF idx >= Len(cols) THEN acc
    ELSE ForEachIndex(cols, kws, idx + 1,
                      IF CellMatches(cols[idx + 1], kws) THEN idx ELSE acc)

ColumnIndex(cols, kws) == ForEachIndex(cols, kws, 0, -1)

NoHeader == [headerIdx |-> -1, colIndices |-> [file |-> -1, time |-> -1, desc |-> -1]]

RECURSIVE FindHeaderFrom_EitherColumn(_, _, _)
FindHeaderFrom_EitherColumn(lines, strategy, i) ==
    IF i >= Len(lines) THEN NoHeader
    ELSE LET cols == splitLine(strategy, lines[i + 1])
             fIdx == ColumnIndex(cols, keywords.file)
             tIdx == ColumnIndex(cols, keywords.time)
             dIdx == ColumnIndex(cols, keywords.desc)
         IN IF fIdx # -1 \/ tIdx # -1
            THEN [headerIdx |-> i,
                  colIndices |-> [file |-> fIdx, time |-> tIdx, desc |-> dIdx]]
            ELSE FindHeaderFrom_EitherColumn(lines, strategy, i + 1)

\* 2. Find Header Row: for (let i = 0; i < lines.length; i++) ... break
RECURSIVE FindHeaderFrom(_, _, _)
FindHeaderFrom(lines, strategy, i) ==
    IF i >= Len(lines) THEN NoHeader
    ELSE LET cols == splitLine(strategy, lines[i + 1])
             fIdx == ColumnIndex(cols, keywords.file)
             tIdx == ColumnIndex(cols, keywords.time)
             dIdx == ColumnIndex(cols, keywords.desc)
         IN IF fIdx # -1 /\ tIdx # -1
            THEN [headerIdx |-> i,
                  colIndices |-> [file |-> fIdx, time |-> tIdx, desc |-> dIdx]]
            ELSE FindHeaderFrom(lines, strategy, i + 1)

FindHeader(lines, strategy) == FindHeaderFrom(lines, strategy, 0)

StrInvalidTimeFormat ==
    <<"I", "n", "v", "a", "l", "i", "d", " ", "t", "i", "m", "e", " ",
      "f", "o", "r", "m", "a", "t", ":", " ">>

StrInvalidRangeFormat ==
    <<"I", "n", "v", "a", "l", "i", "d", " ", "r", "a", "n", "g", "e", " ",
      "f", "o", "r", "m", "a", "t", ":", " ">>

StrClipDash == <<"c", "l", "i", "p", "-">>

\* The full-segment marker of the time column.
StrFullSegment == <<"U+5168", "U+7247", "U+6BB5">>

StrFull == <<"f", "u", "l", "l">>

StrCouldNotIdentify ==
    <<"C", "o", "u", "l", "d", " ", "n", "o", "t", " ", "i", "d", "e", "n",
      "t", "i", "f", "y", " ", "c", "o", "l", "u", "m", "n", "s", ".", " ",
      "P", "l", "e", "a", "s", "e", " ", "e", "n", "s", "u", "r", "e", " ",
      "y", "o", "u", "r", " ", "t", "a", "b", "l", "e", " ", "h", "a", "s",
      " ", "h", "e", "a", "d", "e", "r", "s", " ", "l", "i", "k", "e", " ",
      "'", "F", "i", "l", "e", "'", " ", "a", "n", "d", " ", "'", "T", "i",
      "m", "e", "'", ".", " ", "D", "e", "t", "e", "c", "t", "e", "d", " ",
      "f", "o", "r", "m", "a", "t", ":", " ">>

\* line.replace(/[|\-\s:]/g, '').length === 0
IsSeparatorLine(line) ==
    ReplaceChars(line, {"|", "-", ":"} \cup WhiteSpace, <<>>) = <<>>

\* timeRangeRaw.replace(/U+FF1A/g, ':').trim()
NormalizeTimeRange(timeRangeRaw) ==
    trim(ReplaceChars(timeRangeRaw, {FullWidthColon}, <<":">>))

ParseTimeRange_RangeFirst(timeRangeRaw) ==
    LET timeRange == NormalizeTimeRange(timeRangeRaw)
        parts == Map(trim, split(timeRange, << <<"-">>, <<"t", "o">> >>))
        start == parseTimeToSeconds(parts[1])
        end == parseTimeToSeconds(parts[2])
    IN IF Len(parts) = 2 /\ start # Num(-1) /\ end # Num(-1)
       THEN [startSeconds |-> start, endSeconds |-> Some(end),
             status |-> "ready",
             errorMessage |-> Undefined]
       ELSE IF includes(timeRange, StrFullSegment)
               \/ includes(toLowerCase(timeRange), StrFull)
       THEN [startSeconds |-> 0, endSeconds |-> Null, status |-> "ready",
             errorMessage |-> Undefined]
       ELSE [startSeconds |-> 0, endSeconds |-> Null,
             status |-> "error",
             errorMessage |-> Some(StrInvalidRangeFormat \o timeRange)]

\* The "Time parsing logic" block: startSeconds, endSeconds and, from
\* errorMsg, the status and errorMessage of the record.
ParseTimeRange(timeRangeRaw) ==
    LET timeRange == NormalizeTimeRange(timeRangeRaw)
    IN IF includes(timeRange, StrFullSegment)
          \/ includes(toLowerCase(timeRange), StrFull)
       THEN [startSeconds |-> 0, endSeconds |-> Null, status |-> "ready",
             errorMessage |-> Undefined]
       ELSE LET parts == Map(trim, split(timeRange, << <<"-">>, <<"t", "o">> >>))
            IN IF Len(parts) = 2
               THEN LET start == parseTimeToSeconds(parts[1])
                        end == parseTimeToSeconds(parts[2])
                    IN IF start # Num(-1) /\ end # Num(-1)
                       THEN [startSeconds |-> start, endSeconds |-> Some(end),
                             status |-> "ready",
                             errorMessage |-> Undefined]
                       ELSE [startSeconds |-> 0, endSeconds |-> Null,
                             status |-> "error",
                             errorMessage |-> Some(StrInvalidTimeFormat \o timeRange)]
               ELSE [startSeconds |-> 0, endSeconds |-> Null,
                     status |-> "error",
                     errorMessage |-> Some(StrInvalidRangeFormat \o timeRange)]

\* cols[idx]: undefined (here the empty string, equally falsy) outside the
\* array.
At(cols, idx) == IF idx >= 0 /\ idx < Len(cols) THEN cols[idx + 1] ELSE <<>>

\* The record clips.push(...) appends for row i.
RowClip(cols, i, colIndices) ==
    LET fileName == At(cols, colIndices.file)
        timeRangeRaw == At(cols, colIndices.time)
        description == IF colIndices.desc # -1 THEN At(cols, colIndices.desc)
                       ELSE <<>>
    IN [id |-> StrClipDash \o NatToString(i),
        sourceFileName |-> fileName,
        startTimeStr |-> timeRangeRaw,
        endTimeStr |-> timeRangeRaw,
        description |-> description]
       @@ ParseTimeRange(timeRangeRaw)

ParseRow_DropErrors(line, i, strategy, colIndices) ==
    LET cols == splitLine(strategy, line)
    IN IF IsSeparatorLine(line) THEN <<>>
       ELSE IF Len(cols) <= colIndices.file \/ Len(cols) <= colIndices.time
       THEN <<>>
       ELSE IF At(cols, colIndices.file) = <<>> \/ At(cols, colIndices.time) = <<>>
       THEN <<>>
       ELSE IF RowClip(cols, i, colIndices).status = "error" THEN <<>>
       ELSE <<RowClip(cols, i, colIndices)>>

\* One iteration of the data-row loop: the clips the row at index i pushes
\* (none when a continue skips the row).
ParseRow(line, i, strategy, colIndices) ==
    LET cols == splitLine(strategy, line)
    IN IF IsSeparatorLine(line) THEN <<>>
       ELSE IF Len(cols) <= colIndices.file \/ Len(cols) <= colIndices.time
       THEN <<>>
       ELSE IF At(cols, colIndices.file) = <<>> \/ At(cols, colIndices.time) = <<>>
       THEN <<>>
       ELSE <<RowClip(cols, i, colIndices)>>

\* 3. Parse Data Rows: for (let i = headerIdx + 1; i < lines.length; i++)
RECURSIVE ParseRowsFrom(_, _, _, _, _)
ParseRowsFrom(lines, i, strategy, colIndices, clips) ==
    IF i >= Len(lines) THEN clips
    ELSE ParseRowsFrom(lines, i + 1, strategy, colIndices,
                       clips \o ParseRow(lines[i + 1], i, strategy, colIndices))

\* parseMarkdownTable, returning its result together with the locals that
\* decided it.
parseMarkdownTable(input) ==
    LET lines == NonEmptyLines(input)
        strategy == DetectStrategy(lines)
        header == FindHeader(lines, strategy)
    IN IF Len(lines) = 0
       THEN [result |-> [clips |-> <<>>, errors |-> <<>>],
             strategy |-> Undefined, header |-> NoHeader]
       ELSE IF header.headerIdx = -1
       THEN [result |-> [clips |-> <<>>,
                         errors |-> <<StrCouldNotIdentify \o strategy \o <<".">> >>],
             strategy |-> Some(strategy), header |-> header]
       ELSE [result |-> [clips |-> ParseRowsFrom(lines, header.headerIdx + 1,
                                                 strategy, header.colIndices, <<>>),
                         errors |-> <<>>],
             strategy |-> Some(strategy), header |-> header]

\* ------------------------------------------------------------------------
\* batchGenerator: generateBatchScript
\* ------------------------------------------------------------------------

\* The commands pushed before the clips.
Preamble ==
    <<
      <<"@", "e", "c", "h", "o", " ", "o", "f", "f">>,
      <<"c", "h", "c", "p", " ", "6", "5", "0", "0", "1", " ", ">", "n",
        "u", "l">>,
      <<"e", "c", "h", "o", " ", "S", "t", "a", "r", "t", "i", "n", "g",
        " ", "A", "n", "i", "m", "e", "A", "u", "t", "o", "C", "u", "t",
        " ", "B", "a", "t", "c", "h", " ", "P", "r", "o", "c", "e", "s",
        "s", "i", "n", "g", ".", ".", ".">>,
      <<"e", "c", "h", "o", " ", "=", "=", "=", "=", "=", "=", "=", "=",
        "=", "=", "=", "=", "=", "=", "=", "=", "=", "=", "=", "=", "=",
        "=", "=", "=", "=", "=", "=", "=", "=", "=", "=", "=", "=", "=",
        "=", "=", "=", "=", "=", "=", "=", "=">>,
      <<>>,
      <<"w", "h", "e", "r", "e", " ", "f", "f", "m", "p", "e", "g", " ",
        ">", "n", "u", "l", " ", "2", ">", "n", "u", "l">>,
      <<"i", "f", " ", "%", "e", "r", "r", "o", "r", "l", "e", "v", "e",
        "l", "%", " ", "n", "e", "q", " ", "0", " ", "(">>,
      <<" ", " ", " ", " ", "e", "c", "h", "o", " ", "E", "r", "r", "o",
        "r", ":", " ", "F", "F", "m", "p", "e", "g", " ", "n", "o", "t",
        " ", "f", "o", "u", "n", "d", " ", "i", "n", " ", "P", "A", "T",
        "H", ".">>,
      <<" ", " ", " ", " ", "e", "c", "h", "o", " ", "P", "l", "e", "a",
        "s", "e", " ", "d", "o", "w", "n", "l", "o", "a", "d", " ", "F",
        "F", "m", "p", "e", "g", " ", "a", "n", "d", " ", "p", "l", "a",
        "c", "e", " ", "i", "t", " ", "i", "n", " ", "t", "h", "i", "s",
        " ", "f", "o", "l", "d", "e", "r", " ", "o", "r", " ", "a", "d",
        "d", " ", "i", "t", " ", "t", "o", " ", "y", "o", "u", "r", " ",
        "P", "A", "T", "H", ".">>,
      <<" ", " ", " ", " ", "p", "a", "u", "s", "e">>,
      <<" ", " ", " ", " ", "e", "x", "i", "t", " ", "/", "b">>,
      <<")">>,
      <<>>,
      <<"i", "f", " ", "n", "o", "t", " ", "e", "x", "i", "s", "t", " ",
        "\"", "o", "u", "t", "p", "u", "t", "\"", " ", "m", "k", "d", "i",
        "r", " ", "o", "u", "t", "p", "u", "t">>,
      <<>>
    >>

\* The commands pushed after the clips.
Postamble ==
    <<
      <<>>,
      <<"e", "c", "h", "o", " ", "=", "=", "=", "=", "=", "=", "=", "=",
        "=", "=", "=", "=", "=", "=", "=", "=", "=", "=", "=", "=", "=",
        "=", "=", "=", "=", "=", "=", "=", "=", "=", "=", "=", "=", "=",
        "=", "=", "=", "=", "=", "=", "=", "=">>,
      <<"e", "c", "h", "o", " ", "A", "l", "l", " ", "D", "o", "n", "e",
        "!", " ", "F", "i", "l", "e", "s", " ", "a", "r", "e", " ", "i",
        "n", " ", "t", "h", "e", " ", "\"", "o", "u", "t", "p", "u", "t",
        "\"", " ", "f", "o", "l", "d", "e", "r", ".">>,
      <<"p", "a", "u", "s", "e">>
    >>

StrOutputDir ==
    <<"o", "u", "t", "p", "u", "t", "\\">>

StrMp4 ==
    <<".", "m", "p", "4">>

StrEchoProcessing ==
    <<"e", "c", "h", "o", " ", "P", "r", "o", "c", "e", "s", "s", "i", "n",
      "g", ":", " ">>

StrFfmpegSs ==
    <<"f", "f", "m", "p", "e", "g", " ", "-", "h", "i", "d", "e", "_", "b",
      "a", "n", "n", "e", "r", " ", "-", "l", "o", "g", "l", "e", "v", "e",
      "l", " ", "e", "r", "r", "o", "r", " ", "-", "s", "s", " ">>

StrDashI ==
    <<" ", "-", "i", " ">>

StrDashT ==
    <<"-", "t", " ">>

StrCopy ==
    <<" ", "-", "c", " ", "c", "o", "p", "y", " ">>

StrCrLf ==
    <<"\r", "\n">>

\* String(n).padStart(3, '0')
padStart3(str) ==
    IF Len(str) >= 3 THEN str
    ELSE IF Len(str) = 2 THEN <<"0">> \o str
    ELSE IF Len(str) = 1 THEN <<"0", "0">> \o str
    ELSE <<"0", "0", "0">>

\* Number.prototype.toFixed(3) of a value given in thousandths
toFixed3(v) ==
    LET a == IF v < 0 THEN -v ELSE v
        f == a % Unit
    IN (IF v < 0 THEN <<"-">> ELSE <<>>)
       \o NatToString(a \div Unit) \o <<".">>
       \o <<DigitChar(f \div 100), DigitChar((f \div 10) % 10), DigitChar(f % 10)>>

\* s.replace(/\s+/g, '_'): every run of blanks becomes one underscore
RECURSIVE ReplaceBlankRuns(_)
ReplaceBlankRuns(s) ==
    IF s = <<>> THEN <<>>
    ELSE IF Head(s) \in WhiteSpace
    THEN <<"_">> \o ReplaceBlankRuns(SubSeq(s, BlankRun(s, 1) + 1, Len(s)))
    ELSE <<Head(s)>> \o ReplaceBlankRuns(Tail(s))

\* Sanitize description for filename
safeDesc(description) ==
    ReplaceBlankRuns(
        ReplaceChars(description,
                     {"\\", "/", ":", "*", "?", "\"", "<", ">", "|"}, <<"_">>))

SequenceNumber_Constant(clips, index) == 1

\* The number put in the output name of the clip at forEach index `index`.
SequenceNumber(clips, index) == index + 1

outputName(clips, index) ==
    LET clip == clips[index + 1]
    IN StrOutputDir \o padStart3(NatToString(SequenceNumber(clips, index)))
       \o <<"_">> \o clip.sourceFileName \o <<"_">> \o safeDesc(clip.description)
       \o StrMp4

Max(a, b) == IF a >= b THEN a ELSE b

\* Padding logic: Math.max(0, clip.startSeconds - padding)
WindowStart_NoClamp(clip, pad) == clip.startSeconds - pad

WindowStart(clip, pad) == Max(0, clip.startSeconds - pad)

durationCmd(clip, pad) ==
    IF clip.endSeconds # Null
    THEN LET end == clip.endSeconds[1] + pad
             duration == end - WindowStart(clip, pad)
         IN StrDashT \o toFixed3(duration)
    ELSE <<>>

ClipCommands_KeepErrors(clips, index, pad) ==
    LET clip == clips[index + 1]
        name == outputName(clips, index)
    IN << StrEchoProcessing \o name,
          StrFfmpegSs \o toFixed3(WindowStart(clip, pad)) \o StrDashI
          \o <<"\"">> \o clip.sourceFileName \o <<"\"">> \o <<" ">>
          \o durationCmd(clip, pad) \o StrCopy
          \o <<"\"">> \o name \o <<"\"">> >>

\* The body of clips.forEach((clip, index) => ...): the commands it pushes.
ClipCommands(clips, index, pad) ==
    LET clip == clips[index + 1]
        name == outputName(clips, index)
    IN IF clip.status = "error" THEN <<>>
       ELSE << StrEchoProcessing \o name,
               StrFfmpegSs \o toFixed3(WindowStart(clip, pad)) \o StrDashI
               \o <<"\"">> \o clip.sourceFileName \o <<"\"">> \o <<" ">>
               \o durationCmd(clip, pad) \o StrCopy
               \o <<"\"">> \o name \o <<"\"">> >>

RECURSIVE ForEachClip(_, _, _)
ForEachClip(clips, index, pad) ==
    IF index >= Len(clips) THEN <<>>
    ELSE ClipCommands(clips, index, pad) \o ForEachClip(clips, index + 1, pad)

generateBatchScript(clips, pad) ==
    join(Preamble \o ForEachClip(clips, 0, pad) \o Postamble, StrCrLf)

\* ------------------------------------------------------------------------
\* Inputs
\* ------------------------------------------------------------------------

SeqsUpTo(S, n) == UNION {[1..k -> S] : k \in 0..n}

\* parseTimeToSeconds is applied to every string over TimeAlphabet of at most
\* MaxTimeLen characters ("1:1:1:1" has seven).
MaxTimeLen == 7

TimeAlphabet == {"1", ":", "a", " "}

TimeStrs == SeqsUpTo(TimeAlphabet, MaxTimeLen)

\* parseMarkdownTable is applied to every text of at most MaxLines lines
\* drawn from one of three families of lines, one per delimiter convention.
MaxLines == 3

PipeLines ==
    { <<"t", "h", "e", " ", "e", "n", "d">>,                  \* noise
      <<"F", "i", "l", "e", "|", "T", "i", "m", "e", "|", "D", "e", "s", "c">>,
      <<"F", "i", "l", "e", "|", "n", "a", "m", "e", " ", "t", "i", "m", "e",
        "|", "E", "n", "d">>,                                 \* two hits each
      <<"|", "-", "|", "-", "|">>,                            \* separator
      <<"a", "|", "0", "0", ":", "1", "0", " ", "-", " ", "0", "0", ":", "2",
        "0", "|", "d">>,
      <<"|", "b", "|", "1", "-", "2", " ", "F", "U", "L", "L", "|">>,
      <<"c", "|", "1", "U+FF1A", "x", "-", "2", "|", "3", " ", "t", "o", " ",
        "4", "x">>,
      <<"a", "|", "|", "d">> }

TabLines ==
    { <<"x">>,
      <<"F", "i", "l", "e", "\t", "T", "i", "m", "e">>,
      <<"a", "\t", "1", "-", "2">> }

RegexLines ==
    { <<"x", " ", "y">>,
      <<"F", "i", "l", "e", " ", " ", "T", "i", "m", "e", " ", " ", " ",
        "N", "o", "t", "e">>,
      <<" ", "a", " ", "b", " ", " ", "U+5168", "U+7247", "U+6BB5", " ", " ",
        "d">> }

Texts(lib, n) == {join(ls, <<"\n">>) : ls \in SeqsUpTo(lib, n)}

ParseInputs ==
    Texts(PipeLines, MaxLines) \cup Texts(TabLines, MaxLines)
    \cup Texts(RegexLines, MaxLines)

\* The strategy heuristic is exercised on texts of up to SampleSize +
\* MaxExtraLines lines: two pipes, a tab after a letter, a blank or a letter.
MaxExtraLines == 1

StrategyInputs ==
    Texts({ <<"|", "|">>, <<"x", "\t">>, <<" ">>, <<"x">> },
          SampleSize + MaxExtraLines)

\* generateBatchScript is applied to the clips parsed from a header and at
\* most MaxClips rows, with every padding of the slider up to
\* MaxPaddingSteps half seconds.
MaxClips == 3

MaxPaddingSteps == 3

GenHeader == <<"f", "i", "l", "e", "|", "t", "i", "m", "e", "|", "n", "o", "t", "e">>

GenRows ==
    { <<"a", ".", "m", "p", "4", "|", "1", "0", "-", "2", "0", "|", "x">>,
      <<"a", ".", "m", "p", "4", "|", "f", "u", "l", "l", "|", "x">>,
      <<"b", "|", "g", "|", "x">>,
      <<"b", "|", "1", "-", "0", ":", "3", ".", "5", "|", "p", ":", "q", " ",
        " ", "r">>,
      <<"a", ".", "m", "p", "4", "|", "5", " ", "t", "o", " ", "U+5168",
        "U+7247", "U+6BB5", "|">> }

GenInputs ==
    {join(<<GenHeader>> \o rows, <<"\n">>) : rows \in SeqsUpTo(GenRows, MaxClips)}

\* <input type="range" min="0" max="5" step="0.5">
Paddings == {k * (Unit \div 2) : k \in 0..MaxPaddingSteps}

\* ------------------------------------------------------------------------
\* State machine
\* ------------------------------------------------------------------------

EmptyResult == [clips |-> <<>>, errors |-> <<>>]

NoLocals == [strategy |-> Undefined, header |-> NoHeader]

\* new Map(): the file map before any upload
NoFiles == [name \in {} |-> 0]

\* The App's state before any call, with the given input and padding.
Start(str, input, pad) ==
    /\ pc = "start"
    /\ timeStr = str
    /\ timeResult = Undefined
    /\ markdownInput = input
    /\ parsedResult = EmptyResult
    /\ locals = NoLocals
    /\ padding = pad
    /\ script = Undefined
    /\ seconds = 0
    /\ calls = <<>>
    /\ files = NoFiles
    /\ uploads = <<>>

\* The record of one call: the function, its arguments and what it
\* returned.
ParseCall(input, result) ==
    [fn |-> "parseMarkdownTable", args |-> <<input>>, result |-> result]

GenerateCall(clips, pad, content) ==
    [fn |-> "generateBatchScript", args |-> <<clips, pad>>, result |-> content]

\* timeResult = parseTimeToSeconds(timeStr)
CallParseTime ==
    /\ pc = "start"
    /\ pc' = "timeParsed"
    /\ timeResult' = Some(parseTimeToSeconds(timeStr))
    /\ UNCHANGED <<timeStr, markdownInput, parsedResult, locals, padding, script>>
    /\ UNCHANGED <<seconds, calls, fileVars>>

RunParse_Accumulate ==
    /\ pc = "start"
    /\ pc' = "parsed"
    /\ \E r \in {parseMarkdownTable(markdownInput)} :
          /\ parsedResult' = [clips |-> parsedResult.clips \o r.result.clips,
                              errors |-> parsedResult.errors \o r.result.errors]
          /\ locals' = [strategy |-> r.strategy, header |-> r.header]
          /\ calls' = Append(calls, ParseCall(markdownInput, parsedResult'))
    /\ UNCHANGED <<timeStr, timeResult, markdownInput, padding, script>>
    /\ UNCHANGED <<seconds, fileVars>>

\* runParse: setParsedResult(parseMarkdownTable(markdownInput))
RunParse ==
    /\ pc = "start"
    /\ pc' = "parsed"
    /\ \E r \in {parseMarkdownTable(markdownInput)} :
          /\ parsedResult' = r.result
          /\ locals' = [strategy |-> r.strategy, header |-> r.header]
          /\ calls' = Append(calls, ParseCall(markdownInput, r.result))
    /\ UNCHANGED <<timeStr, timeResult, markdownInput, padding, script>>
    /\ UNCHANGED <<seconds, fileVars>>

\* handleDownloadScript: generateBatchScript(parsedResult.clips, padding)
DownloadScript ==
    /\ pc = "parsed"
    /\ pc' = "generated"
    /\ \E content \in {generateBatchScript(parsedResult.clips, padding)} :
          /\ script' = Some(content)
          /\ calls' = Append(calls,
                             GenerateCall(parsedResult.clips, padding, content))
    /\ UNCHANGED <<timeStr, timeResult, markdownInput, parsedResult, locals, padding>>
    /\ UNCHANGED <<seconds, fileVars>>

\* timeStr = formatSeconds(seconds)
CallFormatSeconds ==
    /\ pc = "start"
    /\ pc' = "formatted"
    /\ timeStr' = formatSeconds(seconds)
    /\ UNCHANGED <<timeResult, markdownInput, parsedResult, locals, padding, script>>
    /\ UNCHANGED <<seconds, calls, fileVars>>

\* timeResult = parseTimeToSeconds(formatSeconds(seconds)): the parse of the
\* text just formatted
CallParseFormatted ==
    /\ pc = "formatted"
    /\ pc' = "roundTrip"
    /\ timeResult' = Some(parseTimeToSeconds(timeStr))
    /\ UNCHANGED <<timeStr, markdownInput, parsedResult, locals, padding, script>>
    /\ UNCHANGED <<seconds, calls, fileVars>>

\* The number of calls after which the text and the padding are left alone.
MaxCalls == 4

\* <textarea onChange>: setMarkdownInput(e.target.value); the effect then
\* schedules runParse for the new text.
EditMarkdown(text) ==
    /\ Len(calls) < MaxCalls
    /\ text # markdownInput
    /\ markdownInput' = text
    /\ pc' = "start"
    /\ UNCHANGED <<timeStr, timeResult, parsedResult, locals, padding, script>>
    /\ UNCHANGED <<seconds, calls, fileVars>>

\* <input type="range" onChange>: setPadding(parseFloat(e.target.value)); a
\* script already downloaded was made for the old padding.
SetPadding(value) ==
    /\ Len(calls) < MaxCalls
    /\ pc \in {"parsed", "generated"}
    /\ value # padding
    /\ padding' = value
    /\ pc' = "parsed"
    /\ UNCHANGED <<timeStr, timeResult, markdownInput, parsedResult, locals, script>>
    /\ UNCHANGED <<seconds, calls, fileVars>>

\* The number of uploads made.
MaxUploads == 3

\* The names of the files the user can pick, and tempVid.duration of each.
FileNames == {"a.mp4", "b.mp4"}

VideoDuration(name) == IF name = "a.mp4" THEN Num(10) ELSE Num(20)

\* handleFileUpload with event.target.files = selected: newFiles is a copy
\* of files; every selected file gets an entry with duration 0 and an
\* onloadedmetadata callback that closes over this call's newFiles;
\* setFiles(newFiles).
HandleFileUpload(selected) ==
    /\ Len(uploads) < MaxUploads
    /\ LET newFiles == [name \in DOMAIN files \cup selected |->
                          IF name \in selected THEN 0 ELSE files[name]]
       IN /\ files' = newFiles
          /\ uploads' = Append(uploads, [newFiles |-> newFiles,
                                         selected |-> selected,
                                         waiting |-> selected])
    /\ UNCHANGED <<pc, timeStr, timeResult, markdownInput, parsedResult, locals,
                   padding, script, seconds, calls>>

\* tempVid.onloadedmetadata of the file `name` of upload number u:
\* newFiles.set(file.name, {..., duration}); setFiles(new Map(newFiles)),
\* where newFiles is the map of that upload.
MetadataLoaded(u, name) ==
    /\ name \in uploads[u].waiting
    /\ LET newFiles == [uploads[u].newFiles EXCEPT ![name] = VideoDuration(name)]
       IN /\ files' = newFiles
          /\ uploads' = [uploads EXCEPT ![u] =
                            [newFiles |-> newFiles,
                             selected |-> uploads[u].selected,
                             waiting |-> uploads[u].waiting \ {name}]]
    /\ UNCHANGED <<pc, timeStr, timeResult, markdownInput, parsedResult, locals,
                   padding, script, seconds, calls>>

InitTime == \E str \in TimeStrs : Start(str, <<>>, 0)

SpecTime == InitTime /\ [][CallParseTime]_vars

InitParse == \E input \in ParseInputs : Start(<<>>, input, 0)

SpecParse == InitParse /\ [][RunParse]_vars

InitStrategy == \E input \in StrategyInputs : Start(<<>>, input, 0)

SpecStrategy == InitStrategy /\ [][RunParse]_vars

InitGen == \E input \in GenInputs, pad \in Paddings : Start(<<>>, input, pad)

NextGen == RunParse \/ DownloadScript

SpecGen == InitGen /\ [][NextGen]_vars

\* The texts typed into the editor in turn: a table with a Ready and an
\* Error row, one with another Ready row, and a text without a header.
RepeatTexts ==
    { <<"f", "i", "l", "e", "|", "t", "i", "m", "e", "|", "n", "o", "t", "e",
        "\n", "a", "|", "1", "0", "-", "2", "0", "|", "x",
        "\n", "b", "|", "g", "|", "x">>,
      <<"f", "i", "l", "e", "|", "t", "i", "m", "e", "|", "n", "o", "t", "e",
        "\n", "b", "|", "1", "-", "2", "|", "y">>,
      <<"x">> }

RepeatPaddings == {Num(0), Num(1)}

InitRepeat == \E input \in RepeatTexts : Start(<<>>, input, Num(0))

NextRepeat ==
    \/ \E text \in RepeatTexts : EditMarkdown(text)
    \/ \E value \in RepeatPaddings : SetPadding(value)
    \/ RunParse
    \/ DownloadScript

SpecRepeat == InitRepeat /\ [][NextRepeat]_vars

InitUpload == Start(<<>>, <<>>, 0)

NextUpload ==
    \/ \E selected \in (SUBSET FileNames) \ {{}} : HandleFileUpload(selected)
    \/ \E u \in 1..Len(uploads), name \in FileNames : MetadataLoaded(u, name)

SpecUpload == InitUpload /\ [][NextUpload]_vars

\* formatSeconds is applied to every whole number of seconds up to
\* MaxSeconds (past the first hour) and to the corner values of the minute
\* and second fields in every hour up to MaxHours.
MaxSeconds == 3700

MaxHours == 11

FieldCorners == {0, 1, 9, 10, 59}

WholeSeconds ==
    (0..MaxSeconds)
    \cup {h * 3600 + m * 60 + s :
            h \in 0..MaxHours, m \in FieldCorners, s \in FieldCorners}

InitFormat ==
    /\ pc = "start"
    /\ timeStr = <<>>
    /\ timeResult = Undefined
    /\ markdownInput = <<>>
    /\ parsedResult = EmptyResult
    /\ locals = NoLocals
    /\ padding = 0
    /\ script = Undefined
    /\ seconds \in {Num(n) : n \in WholeSeconds}
    /\ calls = <<>>
    /\ files = NoFiles
    /\ uploads = <<>>

NextFormat == CallFormatSeconds \/ CallParseFormatted

SpecFormat == InitFormat /\ [][NextFormat]_vars

\* ------------------------------------------------------------------------
\* Properties
\* ------------------------------------------------------------------------

\* The pieces of s between the occurrences of the literal delim, found by
\* position (delim does not overlap itself in any string used here).
FieldsOf(s, delim) ==
    LET cuts == {i \in 1..Len(s) : MatchAt(s, delim, i)}
        n == Cardinality(cuts)
        cut(k) == CHOOSE i \in cuts : Cardinality({j \in cuts : j < i}) = k - 1
        from(k) == IF k = 1 THEN 1 ELSE cut(k - 1) + Len(delim)
        to(k) == IF k = n + 1 THEN Len(s) ELSE cut(k) - 1
    IN [k \in 1..(n + 1) |-> SubSeq(s, from(k), to(k))]

\* A component is numeric when, blanks around it ignored, it is a non-empty
\* run of digits with at most one decimal point.
IsNumeric(component) ==
    LET t == trim(component)
    IN /\ \E i \in 1..Len(t) : t[i] \in Digits
       /\ \A i \in 1..Len(t) : t[i] \in Digits \cup {"."}
       /\ CountChar(t, ".") <= 1

INVALID == Num(-1)

IsTimeCode(str) ==
    LET components == FieldsOf(str, <<":">>)
    IN /\ str # <<>>
       /\ Len(components) \in 1..3
       /\ \A k \in 1..Len(components) : IsNumeric(components[k])

\* C10: parseTimeToSeconds returns INVALID for the empty string, for a number
\* of colon-separated components other than 1, 2 or 3, and whenever some
\* component is not numeric; a time value is returned only for 1 to 3 numeric
\* components.
C10_InvalidUnlessNumeric ==
    pc = "timeParsed" => (~IsTimeCode(timeStr) => timeResult = Some(INVALID))

\* The lines of the input that hold a non-blank character, top to bottom.
InputLines ==
    SelectSeq(FieldsOf(markdownInput, <<"\n">>),
              LAMBDA line : \E i \in 1..Len(line) : line[i] \notin WhiteSpace)

\* The number of occurrences of character c in the first n lines of ls.
Occurrences(ls, n, c) ==
    Cardinality({p \in (1..n) \X (1..Len(markdownInput)) :
                    p[2] <= Len(ls[p[1]]) /\ ls[p[1]][p[2]] = c})

ExpectedStrategy ==
    LET n == IF Len(InputLines) < SampleSize THEN Len(InputLines) ELSE SampleSize
    IN IF Occurrences(InputLines, n, "|") >= n THEN StrPipe
       ELSE IF Occurrences(InputLines, n, "\t") > 0 THEN StrTab
       ELSE StrRegex

\* C9: the delimiter strategy is decided by the first 5 non-empty lines
\* alone: pipe when they hold at least as many pipes as there are sampled
\* lines (tabs or not), else tab when they hold a tab, else regex.  The
\* strategy is also the one the table-level error names.
C9_StrategyPrecedence ==
    (pc = "parsed" /\ Len(InputLines) > 0) =>
        /\ locals.strategy = Some(ExpectedStrategy)
        /\ locals.header.headerIdx = -1 =>
              parsedResult.errors
                  = <<StrCouldNotIdentify \o ExpectedStrategy \o <<".">> >>

\* C9 witness: more than 5 non-empty lines, tabs in the sample and pipes
\* beyond it, and pipe chosen over tab.
C9_Witness ==
    /\ pc = "parsed"
    /\ Len(InputLines) > SampleSize
    /\ Occurrences(InputLines, SampleSize, "\t") > 0
    /\ Occurrences(InputLines, Len(InputLines), "|")
          > Occurrences(InputLines, SampleSize, "|")
    /\ locals.strategy = Some(StrPipe)

\* ---- parseMarkdownTable: header detection -------------------------------

Parsed == pc = "parsed"

\* The cells of the k-th non-empty line (k = 1 is the top line), as the
\* detected strategy splits it.
Cells(k) == splitLine(locals.strategy[1], InputLines[k])

\* The 0-based indices of the cells of line k that match a keyword set.
Hits(k, kws) ==
    {idx \in 0..(Len(Cells(k)) - 1) : CellMatches(Cells(k)[idx + 1], kws)}

QualifiesAsHeader(k) == Hits(k, keywords.file) # {} /\ Hits(k, keywords.time) # {}

HeaderFound == locals.header.headerIdx # -1

\* The header is the first line holding a file cell and a time cell.
HeaderIsFirstQualifyingLine ==
    LET h == locals.header.headerIdx
    IN IF \E k \in 1..Len(InputLines) : QualifiesAsHeader(k)
       THEN /\ h + 1 \in 1..Len(InputLines)
            /\ QualifiesAsHeader(h + 1)
            /\ \A k \in 1..h : ~QualifiesAsHeader(k)
       ELSE h = -1

Least(S) == CHOOSE m \in S : \A n \in S : m <= n

Greatest(S) == CHOOSE m \in S : \A n \in S : m >= n

Categories == {"file", "time", "desc"}

\* C8 as stated: the header is the first line with a file cell and a time
\* cell, and each category's column index is the index of the FIRST cell of
\* that line matching the category.
C8_FirstMatchingCell ==
    (Parsed /\ Len(InputLines) > 0) =>
        /\ HeaderIsFirstQualifyingLine
        /\ HeaderFound =>
              \A cat \in Categories :
                  LET hits == Hits(locals.header.headerIdx + 1, keywords[cat])
                  IN locals.header.colIndices[cat]
                         = IF hits = {} THEN -1 ELSE Least(hits)

\* C8 amended: the header is the first line with a file cell and a time
\* cell, and each category's column index is the index of the LAST cell of
\* that line matching the category (-1 for a description that matches none).
C8_LastMatchingCell ==
    (Parsed /\ Len(InputLines) > 0) =>
        /\ HeaderIsFirstQualifyingLine
        /\ HeaderFound =>
              \A cat \in Categories :
                  LET hits == Hits(locals.header.headerIdx + 1, keywords[cat])
                  IN locals.header.colIndices[cat]
                         = IF hits = {} THEN -1 ELSE Greatest(hits)

\* C8 witness: a header found below a noise line, with two cells matching
\* the file keywords.
C8_Witness ==
    /\ Parsed
    /\ locals.header.headerIdx >= 1
    /\ Cardinality(Hits(locals.header.headerIdx + 1, keywords.file)) >= 2
    /\ locals.header.colIndices.file
          # Least(Hits(locals.header.headerIdx + 1, keywords.file))

\* ---- parseMarkdownTable: the two error channels --------------------------

TableError == <<StrCouldNotIdentify \o locals.strategy[1] \o <<".">> >>

NoLineQualifies == \A k \in 1..Len(InputLines) : ~QualifiesAsHeader(k)

ChannelsDisjoint == ~(parsedResult.clips # <<>> /\ parsedResult.errors # <<>>)

HasErrorRecord ==
    \E k \in 1..Len(parsedResult.clips) : parsedResult.clips[k].status = "error"

\* C4 as stated: whenever no line qualifies as a header the outcome is zero
\* clips and exactly one table-level error naming the detected strategy;
\* whenever a header is found the error list is empty; so no outcome has both
\* clips and errors.
C4_ErrorChannels ==
    Parsed =>
        /\ NoLineQualifies =>
              /\ parsedResult.clips = <<>>
              /\ Len(parsedResult.errors) = 1
              /\ parsedResult.errors = TableError
        /\ HeaderFound => parsedResult.errors = <<>>
        /\ ChannelsDisjoint

\* C4 amended: when the input has a non-empty line and no line qualifies as a
\* header the outcome is zero clips and exactly one table-level error naming
\* the detected strategy; an input without any non-empty line gives zero
\* clips and zero errors; whenever a header is found the error list is empty;
\* so no outcome has both clips and errors.
C4_ErrorChannelsNonEmptyInput ==
    Parsed =>
        /\ (Len(InputLines) > 0 /\ NoLineQualifies) =>
              /\ parsedResult.clips = <<>>
              /\ parsedResult.errors = TableError
        /\ Len(InputLines) = 0 => parsedResult = EmptyResult
        /\ (Len(InputLines) > 0 /\ ~NoLineQualifies) =>
              HeaderFound /\ parsedResult.errors = <<>>
        /\ ChannelsDisjoint

\* C4 witness: a header was found and a row came out as an Error record.
C4_Witness == Parsed /\ HeaderFound /\ HasErrorRecord

\* ---- parseMarkdownTable: rows ---------------------------------------------

\* The file-name and time-range cells of the line at 0-based index i.
FileCell(i) == At(Cells(i + 1), locals.header.colIndices.file)

TimeCell(i) == At(Cells(i + 1), locals.header.colIndices.time)

\* A separator row holds nothing but pipes, hyphens, colons and blanks.
IsSeparatorRow(i) ==
    \A j \in 1..Len(InputLines[i + 1]) :
        InputLines[i + 1][j] \in {"|", "-", ":"} \cup WhiteSpace

\* The 0-based indices of the data rows that yield a record: after the
\* header, not a separator, with enough cells, file and time cells non-empty.
ExtractedRows ==
    {i \in (locals.header.headerIdx + 1)..(Len(InputLines) - 1) :
        /\ ~IsSeparatorRow(i)
        /\ Len(Cells(i + 1)) > locals.header.colIndices.file
        /\ Len(Cells(i + 1)) > locals.header.colIndices.time
        /\ FileCell(i) # <<>>
        /\ TimeCell(i) # <<>>}

\* The k-th smallest element of a set of numbers.
Nth(S, k) == CHOOSE i \in S : Cardinality({j \in S : j < i}) = k - 1

\* The record of a row depends on that row alone.
RecordOfRow(i) == RowClip(Cells(i + 1), i, locals.header.colIndices)

\* C6: with a header found, the clips are exactly one record per extracted
\* row, in row order; the other lines add neither a record nor an error, and
\* each record is what its own row gives whatever the other rows hold.
C6_OneRecordPerExtractedRow ==
    (Parsed /\ HeaderFound) =>
        /\ Len(parsedResult.clips) = Cardinality(ExtractedRows)
        /\ parsedResult.errors = <<>>
        /\ \A k \in 1..Len(parsedResult.clips) :
              LET i == Nth(ExtractedRows, k)
              IN /\ parsedResult.clips[k].id = StrClipDash \o NatToString(i)
                 /\ parsedResult.clips[k].sourceFileName = FileCell(i)
                 /\ parsedResult.clips[k].startTimeStr = TimeCell(i)
                 /\ parsedResult.clips[k] = RecordOfRow(i)

\* C6 witness: a malformed row above a well-formed one, both kept in order.
C6_Witness ==
    /\ Parsed /\ HeaderFound
    /\ Len(parsedResult.clips) = 2
    /\ parsedResult.clips[1].status = "error"
    /\ parsedResult.clips[2].status = "ready"
    /\ parsedResult.clips[1].id = <<"c", "l", "i", "p", "-", "1">>
    /\ parsedResult.clips[2].id = <<"c", "l", "i", "p", "-", "2">>

\* ---- parseMarkdownTable: the time-range cell --------------------------------

Normalized(raw) == trim(ReplaceChars(raw, {FullWidthColon}, <<":">>))

IsFullSegment(raw) ==
    \/ includes(Normalized(raw), StrFullSegment)
    \/ includes(toLowerCase(Normalized(raw)), StrFull)

\* The parts of the range: the text split on a hyphen or "to", trimmed.
RangeParts(raw) == Map(trim, split(Normalized(raw), << <<"-">>, <<"t", "o">> >>))

Str0010To0020 ==
    <<"0", "0", ":", "1", "0", " ", "-", " ", "0", "0", ":", "2", "0">>

\* C7: a time cell holding the full-segment marker or "full" (any case)
\* gives a Ready record with startSeconds 0 and no endSeconds, whatever else
\* it holds; otherwise a cell splitting into exactly two parts that are both
\* accepted as time codes gives a Ready record with those two values, not
\* swapped and not compared ("00:10 - 00:20" gives 10 and 20).
C7_TimeRangeInterpretation ==
    (Parsed /\ HeaderFound) =>
        \A k \in 1..Len(parsedResult.clips) :
            LET clip == parsedResult.clips[k]
                raw == clip.startTimeStr
                parts == RangeParts(raw)
            IN /\ IsFullSegment(raw) =>
                    /\ clip.status = "ready"
                    /\ clip.startSeconds = 0
                    /\ clip.endSeconds = Null
               /\ ( /\ ~IsFullSegment(raw)
                    /\ Len(parts) = 2
                    /\ parseTimeToSeconds(parts[1]) # INVALID
                    /\ parseTimeToSeconds(parts[2]) # INVALID ) =>
                    /\ clip.status = "ready"
                    /\ clip.startSeconds = parseTimeToSeconds(parts[1])
                    /\ clip.endSeconds = Some(parseTimeToSeconds(parts[2]))
               /\ raw = Str0010To0020 =>
                    /\ clip.startSeconds = Num(10)
                    /\ clip.endSeconds = Some(Num(20))

\* C7 witness: a cell with "FULL" after a valid range read as the full
\* segment, next to a "00:10 - 00:20" row.
C7_Witness ==
    /\ Parsed /\ HeaderFound
    /\ \E k \in 1..Len(parsedResult.clips) :
          /\ IsFullSegment(parsedResult.clips[k].startTimeStr)
          /\ Len(RangeParts(parsedResult.clips[k].startTimeStr)) = 2
          /\ parsedResult.clips[k].endSeconds = Null
    /\ \E k \in 1..Len(parsedResult.clips) :
          /\ parsedResult.clips[k].startTimeStr = Str0010To0020
          /\ parsedResult.clips[k].status = "ready"

\* C5: a data row with non-empty file and time cells whose time text is
\* neither a full-segment marker nor a range of exactly two valid time codes
\* yields one Error record whose message contains the original time text and
\* which carries the raw file name and the raw time text (as startTimeStr and
\* as endTimeStr).
C5_MalformedRowKeptAsError ==
    (Parsed /\ HeaderFound) =>
        \A k \in 1..Len(parsedResult.clips) :
            LET i == Nth(ExtractedRows, k)
                clip == parsedResult.clips[k]
                raw == TimeCell(i)
                parts == RangeParts(raw)
                malformed ==
                    /\ ~IsFullSegment(raw)
                    /\ ~(Len(parts) = 2 /\ IsTimeCode(parts[1]) /\ IsTimeCode(parts[2]))
            IN /\ Len(parsedResult.clips) = Cardinality(ExtractedRows)
               /\ malformed =>
                    /\ clip.status = "error"
                    /\ clip.errorMessage # Undefined
                    /\ includes(clip.errorMessage[1], raw)
                    /\ clip.sourceFileName = FileCell(i)
                    /\ clip.startTimeStr = raw
                    /\ clip.endTimeStr = raw

\* ---- generateBatchScript ------------------------------------------------------

Generated == pc = "generated"

\* The lines of the script, split at the line terminator.
ScriptLines == FieldsOf(script[1], StrCrLf)

StartsWith(s, prefix) == MatchAt(s, prefix, 1)

StrFfmpeg == <<"f", "f", "m", "p", "e", "g", " ">>

FfmpegLines == SelectSeq(ScriptLines, LAMBDA l : StartsWith(l, StrFfmpeg))

ReadyClips == SelectSeq(parsedResult.clips, LAMBDA c : c.status = "ready")

\* The quoted and unquoted stretches of a command line: 1 the options up to
\* -i, 2 the source file, 3 the options up to the output, 4 the output path.
Stretch(line, n) == FieldsOf(line, <<"\"">>)[n]

\* The text of line that follows the first occurrence of marker.
After(line, marker) ==
    LET at == Least({i \in 1..Len(line) : MatchAt(line, marker, i)})
    IN SubSeq(line, at + Len(marker), Len(line))

EndsWith(s, suffix) ==
    Len(suffix) <= Len(s) /\ SubSeq(s, Len(s) - Len(suffix) + 1, Len(s)) = suffix

\* The tail shared by the output path of a clip: _<source>_<safe desc>.mp4
NameTail(clip) ==
    <<"_">> \o clip.sourceFileName \o <<"_">> \o safeDesc(clip.description) \o StrMp4

\* C1: the script holds exactly one announce line and one ffmpeg line per
\* Ready clip, as consecutive pairs in the clips' order between the fixed
\* preamble and postamble, and no line for an Error clip.
C1_OnePairPerReadyClip ==
    Generated =>
        LET lines == ScriptLines
            announces == SelectSeq(lines, LAMBDA l : StartsWith(l, StrEchoProcessing))
            commands == SelectSeq(lines, LAMBDA l : StartsWith(l, StrFfmpeg))
            ready == ReadyClips
        IN /\ Len(lines) = Len(Preamble) + 2 * Len(ready) + Len(Postamble)
           /\ Len(announces) = Len(ready)
           /\ Len(commands) = Len(ready)
           /\ \A k \in 1..Len(ready) :
                 LET announce == lines[Len(Preamble) + 2 * k - 1]
                     command == lines[Len(Preamble) + 2 * k]
                     stretches == FieldsOf(command, <<"\"">>)
                 IN /\ announce = announces[k]
                    /\ command = commands[k]
                    /\ stretches[2] = ready[k].sourceFileName
                    /\ EndsWith(stretches[4], NameTail(ready[k]))
                    /\ announce = StrEchoProcessing \o stretches[4]
                    /\ (ready[k].endSeconds = Null)
                          = ~includes(stretches[3], StrDashT)

\* C1 witness: an Error clip between two different Ready clips.
C1_Witness ==
    /\ Generated
    /\ Len(parsedResult.clips) = 3
    /\ parsedResult.clips[1].status = "ready"
    /\ parsedResult.clips[2].status = "error"
    /\ parsedResult.clips[3].status = "ready"
    /\ parsedResult.clips[1].sourceFileName # parsedResult.clips[3].sourceFileName

\* C2: the k-th emitted clip carries sequence number k, zero-padded to three
\* digits, also when Error clips precede it.
C2_SequentialNumbering ==
    Generated =>
        LET commands == FfmpegLines
        IN \A k \in 1..Len(commands) :
              LET digits == DigitPrefix(After(Stretch(commands[k], 4), StrOutputDir))
              IN Len(digits) = 3 /\ DigitsValue(digits) = k

\* The number a toFixed(3) text denotes, in thousandths.
Value(text) == parseFloat(text)[1]

SeekOf(command) ==
    LET opts == Stretch(command, 1)
    IN Value(SubSeq(opts, Len(StrFfmpegSs) + 1, Len(opts) - Len(StrDashI)))

HasDuration(command) == includes(Stretch(command, 3), StrDashT)

DurationOf(command) ==
    LET opts == After(Stretch(command, 3), StrDashT)
    IN Value(SubSeq(opts, 1, Len(opts) - Len(StrCopy)))

C11_RoundTrip ==
    /\ pc \in {"formatted", "roundTrip"} =>
          LET fields == FieldsOf(timeStr, <<":">>)
          IN /\ Len(fields) = (IF seconds < Num(3600) THEN 2 ELSE 3)
             /\ \A i \in 1..Len(fields) :
                   /\ Len(fields[i]) >= 2
                   /\ \A j \in 1..Len(fields[i]) : fields[i][j] \in Digits
    /\ pc = "roundTrip" => timeResult = Some(seconds)

\* C11 witness: 3661 seconds are rendered 01:01:01 and read back as 3661.
C11_Witness ==
    /\ pc = "roundTrip"
    /\ seconds = Num(3661)
    /\ timeStr = <<"0", "1", ":", "0", "1", ":", "0", "1">>
    /\ timeResult = Some(Num(3661))

\* ------------------------------------------------------------------------
\* C12: repeated calls
\* ------------------------------------------------------------------------

IsParseCall(c) == c.fn = "parseMarkdownTable"

IsGenerateCall(c) == c.fn = "generateBatchScript"

\* Two calls of the same function with the same arguments.
SameCall(c, d) == c.fn = d.fn /\ c.args = d.args

OutputPaths ==
    LET commands == FfmpegLines
    IN [k \in 1..Len(commands) |-> Stretch(commands[k], 4)]

\* C13: within one script no two commands write to the same output path,
\* also when two emitted clips have the same source file name and the same
\* description.
C13_DistinctOutputPaths ==
    Generated =>
        LET paths == OutputPaths
        IN \A i, j \in 1..Len(paths) : i # j => paths[i] # paths[j]

\* C13 witness: a script for two Ready clips with the same source file name
\* and the same description.
C13_Witness ==
    /\ Generated
    /\ Len(OutputPaths) >= 2
    /\ \E i, j \in 1..Len(parsedResult.clips) :
          /\ i < j
          /\ parsedResult.clips[i].status = "ready"
          /\ parsedResult.clips[j].status = "ready"
          /\ parsedResult.clips[i].sourceFileName
                = parsedResult.clips[j].sourceFileName
          /\ parsedResult.clips[i].description = parsedResult.clips[j].description

\* ------------------------------------------------------------------------
\* C14: the file list
\* ------------------------------------------------------------------------

\* The names of the files added by the uploads so far.
UploadedNames == UNION {uploads[u].selected : u \in 1..Len(uploads)}

\* C14: a file added by an upload stays in the file map, whatever uploads
\* follow and whenever the metadata callbacks of earlier uploads run.
C14_UploadedFilesStay == UploadedNames \subseteq DOMAIN files
====
